---- MODULE Spec2Model ----
(***************************************************************************)
(* Deno Live Preview: the preview-session orchestrator of the VS Code      *)
(* extension (src/src/extension.ts, first revision in the file, lines      *)
(* 1-1179) together with the preview provider's connection status and      *)
(* health check (src/src/denoPreviewProvider.ts).                          *)
(*                                                                         *)
(* The host is a single-threaded event loop: every action below is one     *)
(* run-to-completion turn of the host (a command, the continuation of an   *)
(* await, a timer callback, a child-process event callback) or one step of *)
(* the environment (the child process writes, exits; time passes; a fetch  *)
(* resolves).                                                              *)
(***************************************************************************)
EXTENDS Integers, FiniteSets, Sequences, TLC

\* ------------------------------------------------------------------ bounds
\* Total number of start() calls in a behaviour; call i spawns process i.
MaxStarts == 2
\* Number of diagnostics fetches in flight at once.
MaxFetches == 1
\* Number of sessions started in HealthSpec.
MaxSessions == 1
\* Number of cleanup calls in a row that are counted.
MaxCleanups == 2
\* Number of requests to /_lr_ws the generated server gets, each with a socket
\* of its own.
MaxSockets == 4
\* Reload Client: WebSocket objects alive at once, reconnect timers pending at
\* once, and the value reconnectAttempts is followed up to.
\* Host refresh triggers: change events followed in one burst, and the value
\* _refreshCounter is followed up to.
MaxChanges == 3
MaxRefreshes == 4
\* HTML injection: pieces in the text of the HTML file, and requests for it.
MaxBody == 2
MaxRequests == 2
\* Root detection: directories from the edited file's to the filesystem root,
\* and directories holding a marker file.
MaxChain == 12
MaxMarkers == 2
\* Port parsing: characters in the value of DENO_PORT.
MaxPortLen == 5
\* Log scraping: reload clients of the server, unread log lines.
MaxPeers == 2
MaxPipe == 3
\* Provider timers: setInterval calls.
MaxArms == 5
MaxWebSockets == 2
MaxTimers == 2
MaxAttempts == 7

\* ------------------------------------------------------- program constants
\* The health-check period (10000 ms, setInterval and the rate limit of
\* checkServerHealth), in clock ticks of 10 s.
HEALTH_INTERVAL == 1

Ids == 1..MaxStarts

\* The workspace the editor documents live in: two project roots.  a.html
\* (root r1) gets a generated static server; srv.ts (root r2) already contains
\* 'serve(' and is run as it is.
Files == {"a.html", "srv.ts"}
Roots == {"r1", "r2"}

\* detectProjectRoot on this workspace layout (marker file in the root).
detectProjectRoot(f) == IF f = "srv.ts" THEN "r2" ELSE "r1"

\* config.get('port') || 8000, with the port left unconfigured.
port == 8000

\* The names the child's script may read: --allow-env=...
ALLOW_ENV == {"DENO_PORT", "DENO_LIVE_PREVIEW", "DENO_LIVE_PREVIEW_FILE"}

\* process.env of the host: the names its own environment holds.
processEnv == {"PATH", "HOME"}

\* denoArgs: the permissions and the script `deno run` gets.  root:
\* projectRoot at the time; script: serverFilePath.
denoArgs(root, script) ==
  [allowNet |-> {<<"localhost", port>>}, allowRead |-> {root}, allowEnv |-> ALLOW_ENV,
   script |-> script]

\* denoEnv: the environment handed to the child, { ...process.env, DENO_PORT,
\* DENO_DIR, DENO_LIVE_PREVIEW, DENO_LIVE_PREVIEW_FILE }.
denoEnv(f) ==
  [name \in processEnv \cup {"DENO_PORT", "DENO_DIR", "DENO_LIVE_PREVIEW",
                             "DENO_LIVE_PREVIEW_FILE"} |->
     CASE name = "DENO_PORT" -> "8000"
       [] name = "DENO_DIR" -> "deno-cache"
       [] name = "DENO_LIVE_PREVIEW" -> "true"
       [] name = "DENO_LIVE_PREVIEW_FILE" -> f
       [] OTHER -> "host"]

\* path.extname(filePath) and the 'serve(' content test of startLivePreview:
\* TRUE when a temporary static server is generated for the document.
needsGeneratedServer(f) == f = "a.html"

\* generateStaticServerCode: the empty string for a .ts file that contains
\* 'serve(', else the text of the static server program.
generateStaticServerCode(f) == IF f = "srv.ts" THEN "" ELSE "static server"

\* A start that writes a temporary server file whatever the document is.
tempServerFileAlways(f) == TRUE

\* `tempServerFile` of startLivePreview: a server is to be generated and the
\* generator returned a program, so _temp_server.ts is written and run.
tempServerFile(f) == needsGeneratedServer(f) /\ generateStaticServerCode(f) # ""

\* path.join(projectRoot, '.deno-live-preview') and the server file in it.
tempDir(r) == <<"directory", r>>
tempServerPath(r) == <<"file", r>>
TempPaths == {tempDir(r) : r \in Roots} \cup {tempServerPath(r) : r \in Roots}

Status == {"unknown", "connected", "disconnected", "error"}
Chunks == {"running", "ws"}
ExitCodes == {"clean", "crash", "spawnerr"}
Spawned == {"alive", "failed", "exited", "closed"}

VARIABLES
  \* one entry per start() call / per child process spawned by it
  pc,            \* "new" | "save" | "checks" | "aborted" | "alive" | "failed" | "exited" | "closed"
  file,          \* the document of the call (filePath in the closure)
  serverFile,    \* closure of the call: root of its temp server file, "-" if tempServerFile is false
  out,           \* stdout chunk of the child that the host has not read yet
  code,          \* exit code class of the child
  outcome,       \* last notification shown to the user for this call
  \* module-level state of extension.ts
  denoProcess, fileWatcher, activePreviewFiles, tempResources, projectRoot,
  \* DenoPreviewProvider
  previewUrl, connectionStatus, healthCheckInterval, sinceCheck, fetches,
  \* Logger diagnostics store
  websocketStatus, serverRunning,
  \* environment
  disk,          \* temp paths that exist on disk
  killed,        \* children stopLivePreview has called kill() on (SIGTERM)
  forced,        \* children the 500 ms timer has called process.kill on
  killTimers,    \* pending 500 ms timers, named by the child whose stop armed them
  portTaken,     \* the configured port is bound by a process that is not ours
  \* history
  undeleted,     \* temp paths on disk whose deletion the filesystem refused
  spawnCount,    \* number of child_process.spawn calls
  restart        \* <<old, new>>: the last start() that replaced a Running session

\* The Temp Resource Manager taken by itself (TempSpec).  The life-cycle
\* specifications keep of the tracking map its key set, tempResources; here it
\* is kept in its insertion order as well, with the order of the deletions.
VARIABLES
  tracked,       \* the keys of the tempResources map in insertion order
  deletions,     \* the unlinkSync / rmdirSync calls of the last cleanup, in order
  inRow          \* cleanups called in a row, with no createTempResource since

\* The generated server (the program generateStaticServerCode returns) with
\* its Reload Broker, taken by itself (BrokerSpec).
VARIABLES
  server,        \* "starting" | "serving" | "exited"
  exitSignal,    \* the signal the server exited on, "none" if it has not
  watcher,       \* Deno.watchFs(rootDir): "none" | "watching" | "closed"
  readyState,    \* of each socket: "none" | "rejected" | "failed" | "connecting" | "open" | "closing" | "closed"
  queued,        \* of each socket: the events not yet dispatched to its handlers
  seen,          \* of each socket: the events its handlers have run for
  clients,       \* the set `clients`
  sent,          \* of each socket: the `reload` payloads the turn just run sent to it
  diagnostics    \* the counters of the `diagnostics` object

\* The Reload Client (the script the generated server serves at
\* /_lr_script.js), taken by itself in one page (ClientSpec).
VARIABLES
  loaded,            \* the script has run in the page
  reconnectAttempts, \* `reconnectAttempts`
  socket,            \* `socket`: 0 for null, else the WebSocket object it refers to
  wsState,           \* of each WebSocket object: "none" | "connecting" | "open" | "closing" | "closed"
  wsQueued,          \* of each WebSocket object: the events not yet dispatched to its handlers
  reconnectTimers,   \* number of pending setTimeout(connectWebSocket, delay)
  delay,             \* the delay of the last reconnect(), in ms; 0 before the first
  afterOpen          \* "never" opened | "open": attempts reset, no reconnect() since | "first" | "later" reconnect() since

\* The host's refresh triggers (WatchSpec).
VARIABLES
  refreshCounter,  \* `_refreshCounter` of the preview provider
  debounceTimer,   \* `debounceTimer`: TRUE while a timer is armed
  changes,         \* change events of the current burst: each came before the window after the one before it passed
  burstRefreshes,  \* refreshes the watcher has triggered since the current burst began
  windowPassed     \* the debounce window has passed since the last change event

\* The generated server's HTML responses (InjectSpec).
VARIABLES
  htmlFile,      \* text of the previewed HTML file on disk, as a sequence of pieces
  htmlPending,   \* requests for the page whose handler awaits serveDir
  htmlResponse   \* the last response to a request for the page: [kind, body]

\* What each child was spawned with.
VARIABLES
  launch         \* of each call of start(): [args, env] of its spawn, NoLaunch before it

\* The generated server's port (PortSpec).
VARIABLES
  denoPort,      \* DENO_PORT in the server's environment: [set, text], text a sequence of characters
  servePort      \* what the program passed to serve({ port }): [called, port]

\* The server's WebSocket log lines and the host's reading of them (ScrapeSpec).
VARIABLES
  peers,         \* the reload clients whose socket is open on the server
  erred,         \* the sockets whose error event was handled and whose close event is queued
  pipe           \* the log lines the server wrote to stdout that the host has not read

\* The preview provider's health-check timers, under any order of calls of
\* its public methods (ProviderSpec).
VARIABLES
  view,          \* `_view` is set
  intervals,     \* the setInterval timers that were armed and not cleared
  intervalId,    \* `_healthCheckInterval`: the timer it holds, 0 for undefined
  armCount       \* the number of setInterval calls so far

\* Project root detection on a directory chain (RootSpec).  A directory is
\* named by the number of dirname steps from the edited file to it: 1 is the
\* file's own directory, layout.n the filesystem root.
VARIABLES
  layout,         \* the filesystem: [n, markers], markers the directories holding a marker file
  rootRecorded,   \* `projectRoot` as a directory of the chain, 0 while unset
  detected,       \* the last detectProjectRoot call: [dir, failed, root], the directory it returned (0 before any), whether its try block threw, projectRoot when it was made
  detectedBefore  \* what the call before it returned on the same filesystem, dir 0 if none

procVars == <<pc, file, serverFile, out, code, outcome>>
hostVars == <<denoProcess, fileWatcher, activePreviewFiles, tempResources, projectRoot>>
provVars == <<previewUrl, connectionStatus, healthCheckInterval, sinceCheck, fetches>>
diagVars == <<websocketStatus, serverRunning>>
envVars  == <<disk, killed, forced, killTimers, portTaken>>
histVars == <<undeleted, spawnCount, restart>>
sessionVars == <<procVars, hostVars, provVars, diagVars, envVars, histVars>>
tempVars == <<tracked, deletions, inRow>>
\* The variables of the components that are specified by themselves.
brokerVars == <<server, exitSignal, watcher, readyState, queued, seen, clients, sent,
                diagnostics>>
clientVars == <<loaded, reconnectAttempts, socket, wsState, wsQueued, reconnectTimers,
                delay, afterOpen>>
watchVars == <<refreshCounter, debounceTimer, changes, burstRefreshes, windowPassed>>
injectVars == <<htmlFile, htmlPending, htmlResponse>>
rootVars == <<layout, rootRecorded, detected, detectedBefore>>
launchVars == <<launch>>
portVars == <<denoPort, servePort>>
scrapeVars == <<peers, erred, pipe>>
timerVars == <<view, intervals, intervalId, armCount>>
compVars == <<tempVars, brokerVars, clientVars, watchVars, injectVars, rootVars, launchVars,
              portVars, scrapeVars, timerVars>>
\* What the actions of one component leave alone.
outsideTemp == <<brokerVars, clientVars, watchVars, injectVars, rootVars, launchVars, portVars, scrapeVars, timerVars>>
outsideServer == <<sessionVars, tempVars, clientVars, watchVars, rootVars, launchVars, portVars, scrapeVars, timerVars>>
outsideBroker == <<outsideServer, injectVars>>
outsideClient == <<sessionVars, tempVars, brokerVars, watchVars, injectVars, rootVars, launchVars, portVars, scrapeVars, timerVars>>
outsideWatch == <<sessionVars, tempVars, brokerVars, clientVars, injectVars, rootVars, launchVars, portVars, scrapeVars, timerVars>>
outsideRoot == <<sessionVars, tempVars, brokerVars, clientVars, watchVars, injectVars, launchVars, portVars, scrapeVars, timerVars>>
outsidePort == <<sessionVars, tempVars, brokerVars, clientVars, watchVars, injectVars, rootVars,
                 launchVars, scrapeVars, timerVars>>
outsideScrape == <<procVars, hostVars, previewUrl, healthCheckInterval, sinceCheck, fetches,
                   serverRunning, envVars, histVars, tempVars, brokerVars, clientVars,
                   watchVars, injectVars, rootVars, launchVars, portVars, timerVars>>
outsideProvider == <<procVars, hostVars, healthCheckInterval, sinceCheck, fetches,
                     serverRunning, envVars, histVars, tempVars, brokerVars, clientVars,
                     watchVars, injectVars, rootVars, launchVars, portVars, scrapeVars>>
outsideLaunch == <<tempVars, brokerVars, clientVars, watchVars, injectVars, rootVars, portVars, scrapeVars, timerVars>>
vars == <<sessionVars, compVars>>

TempIdle ==
  /\ tracked = <<>>
  /\ deletions = <<>>
  /\ inRow = 0

Sockets == 1..MaxSockets

\* No payload sent.
NoneSent == [s \in Sockets |-> 0]

\* The generated server as it is spawned.
BrokerIdle ==
  /\ server = "starting"
  /\ exitSignal = "none"
  /\ watcher = "none"
  /\ readyState = [s \in Sockets |-> "none"]
  /\ queued = [s \in Sockets |-> {}]
  /\ seen = [s \in Sockets |-> {}]
  /\ clients = {}
  /\ sent = NoneSent
  /\ diagnostics = [connections |-> 0, activeConnections |-> 0, wsConnections |-> 0,
                    activeWsConnections |-> 0, requests |-> 0, errors |-> 0]

WebSockets == 1..MaxWebSockets

\* The page before the script runs.
ClientIdle ==
  /\ loaded = FALSE
  /\ reconnectAttempts = 0
  /\ socket = 0
  /\ wsState = [k \in WebSockets |-> "none"]
  /\ wsQueued = [k \in WebSockets |-> {}]
  /\ reconnectTimers = 0
  /\ delay = 0
  /\ afterOpen = "never"

\* No refresh yet, no timer armed (extension.ts declares debounceTimer
\* without a value), no change event seen.
WatchIdle ==
  /\ refreshCounter = 0
  /\ debounceTimer = FALSE
  /\ changes = 0
  /\ burstRefreshes = 0
  /\ windowPassed = FALSE

\* The pieces an HTML text is made of here: the closing head tag, the reload
\* script tag, other text that mentions /_lr_script.js, and any other text.
HEAD_END == "</head>"
SCRIPT_TAG == "<script src=/_lr_script.js></script>"
SCRIPT_REF == "/_lr_script.js"
HtmlPieces == {HEAD_END, SCRIPT_TAG, SCRIPT_REF, "text"}

\* The page is a document with a head; nothing requested yet.
InjectIdle ==
  /\ htmlFile = <<HEAD_END>>
  /\ htmlPending = 0
  /\ htmlResponse = [kind |-> "none", body |-> <<>>]

NoneDetected == [dir |-> 0, failed |-> FALSE, root |-> 0]

\* The edited file lies in a directory below the root, with no marker file
\* anywhere; no start yet.
RootIdle ==
  /\ layout = [n |-> 2, markers |-> {}]
  /\ rootRecorded = 0
  /\ detected = NoneDetected
  /\ detectedBefore = NoneDetected

NoLaunch ==
  [args |-> [allowNet |-> {}, allowRead |-> {}, allowEnv |-> {}, script |-> <<"none", "-">>],
   env |-> [name \in {} |-> "-"]]

\* Nothing spawned yet.
LaunchIdle == launch = [i \in Ids |-> NoLaunch]

NotServed == [called |-> FALSE, port |-> 0]

\* A server process with DENO_PORT as the host sets it, before its program
\* has run.
PortIdle ==
  /\ denoPort = [set |-> TRUE, text |-> <<"8", "0", "0", "0">>]
  /\ servePort = NotServed

\* A server with no reload client and nothing written.
ScrapeIdle ==
  /\ peers = {}
  /\ erred = {}
  /\ pipe = <<>>

\* The provider as constructed: no view, no timer.
ProviderIdle ==
  /\ view = FALSE
  /\ intervals = {}
  /\ intervalId = 0
  /\ armCount = 0

CompInit ==
  /\ ProviderIdle
  /\ ScrapeIdle
  /\ PortIdle
  /\ LaunchIdle
  /\ TempIdle
  /\ BrokerIdle
  /\ ClientIdle
  /\ WatchIdle
  /\ InjectIdle
  /\ RootIdle

\* The host after activation, but for the filesystem and the port.
HostIdle ==
  /\ pc = [i \in Ids |-> "new"]
  /\ file = [i \in Ids |-> "-"]
  /\ serverFile = [i \in Ids |-> "-"]
  /\ out = [i \in Ids |-> "none"]
  /\ code = [i \in Ids |-> "none"]
  /\ outcome = [i \in Ids |-> "none"]
  /\ denoProcess = 0
  /\ fileWatcher = FALSE
  /\ activePreviewFiles = {}
  /\ tempResources = {}
  /\ projectRoot = "-"
  /\ previewUrl = 0
  /\ connectionStatus = "unknown"
  /\ healthCheckInterval = -1
  /\ sinceCheck = HEALTH_INTERVAL
  /\ fetches = {}
  /\ websocketStatus = "unknown"
  /\ serverRunning = FALSE
  /\ killed = {}
  /\ forced = {}
  /\ killTimers = {}
  /\ undeleted = {}
  /\ spawnCount = 0
  /\ restart = <<0, 0>>

Init ==
  /\ HostIdle
  /\ disk = {}
  /\ portTaken \in BOOLEAN
  /\ CompInit

\* --------------------------------------------------- Temp Resource Manager

\* A files loop that drops an entry only when its file was deleted.
cleanupFilesKeepFailed(tr, dk, refuse) ==
  LET hit == {x \in tr : x[1] = "file" /\ x \in dk}
  IN  [tr |-> tr \ (hit \ refuse), dk |-> dk \ (hit \ refuse), failed |-> hit \cap refuse]

\* cleanupTempResources.  tr: the tracking map (its keys), dk: the disk,
\* refuse: the paths whose deletion throws.  First loop: every tracked file
\* that exists is unlinked and its entry dropped; second loop: every tracked
\* directory that exists is removed recursively and its entry dropped.  An
\* entry whose path does not exist is left in the map.  failed: the paths
\* whose deletion threw (caught and logged).
cleanupFiles(tr, dk, refuse) ==
  LET hit == {x \in tr : x[1] = "file" /\ x \in dk}
  IN  [tr |-> tr \ hit, dk |-> dk \ (hit \ refuse), failed |-> hit \cap refuse]

rmdirOk(r, dk, refuse) ==
  /\ tempDir(r) \notin refuse
  /\ ~(tempServerPath(r) \in dk /\ tempServerPath(r) \in refuse)

cleanupDirectories(tr, dk, refuse) ==
  LET hit  == {x \in tr : x[1] = "directory" /\ x \in dk}
      ok   == {q \in Roots : tempDir(q) \in hit /\ rmdirOk(q, dk, refuse)}
      gone == UNION {{tempDir(r), tempServerPath(r)} : r \in ok}
  IN  [tr |-> tr \ hit, dk |-> dk \ gone, failed |-> hit \ gone]

cleanupTempResources(tr, dk, refuse) ==
  LET f == cleanupFiles(tr, dk, refuse)
      d == cleanupDirectories(f.tr, f.dk, refuse)
  IN  [tr |-> d.tr, dk |-> d.dk, failed |-> f.failed \cup d.failed]

\* A createTempResource that keeps its failure to itself.
createTempResourceQuiet(tr, dk, r, fail) == [tr |-> tr, dk |-> dk, threw |-> FALSE]

\* createTempResource(basePath, '_temp_server.ts', content) for basePath =
\* tempDir(r).  fail: "none", "mkdir" (mkdirSync throws) or "write"
\* (writeFileSync throws).  threw: the exception reaches the caller.
createTempResource(tr, dk, r, fail) ==
  LET made == tempDir(r) \notin dk /\ fail # "mkdir"
      tr1  == IF made THEN tr \cup {tempDir(r)} ELSE tr
      dk1  == IF made THEN dk \cup {tempDir(r)} ELSE dk
      threw == fail = "write" \/ (fail = "mkdir" /\ tempDir(r) \notin dk)
  IN  IF threw
        THEN [tr |-> tr1, dk |-> dk1, threw |-> TRUE]
        ELSE [tr |-> tr1 \cup {tempServerPath(r)},
              dk |-> dk1 \cup {tempServerPath(r)}, threw |-> FALSE]

\* ------------------------------------------------------- DenoPreviewProvider

\* updateConnectionStatus: only a change of status is recorded, and then also
\* written to the diagnostics store (diagnosticsHelper.updateWebSocketStatus).
updateConnectionStatus(cur, ws, status) ==
  IF cur # status THEN [conn |-> status, ws |-> status]
                  ELSE [conn |-> cur, ws |-> ws]

\* startHealthCheck: stopHealthCheck, then arm setInterval(10000) if a
\* preview URL is set.  -1: no timer; n >= 0: ticks until the callback is due.
startHealthCheck(url) == IF url = 0 THEN -1 ELSE HEALTH_INTERVAL

\* appendOutput: the status a stdout chunk leads to ("" for none).  line: what
\* a chunk of WebSocket log lines says, "established" or "closed" (the latter
\* also stands for 'WebSocket error').
outputStatus(chunk, line) ==
  IF chunk # "ws" THEN ""
  ELSE IF line = "established" THEN "connected" ELSE "disconnected"

\* A poll that takes every answer for a live connection.
pollStatusConnected(result) == "connected"

\* The status a successful or failed diagnostics poll leads to ("" for none).
pollStatus(result) ==
  IF result = "active" THEN "connected"
  ELSE IF result = "inactive" THEN "disconnected"
  ELSE IF result = "never" THEN "" ELSE "error"

\* ------------------------------------------------------------ stopLivePreview

\* A stop that drops the handle without signalling the child.
stopKillSkipped(dp, k) == k

\* if (denoProcess) { denoProcess.kill(); ... }
stopKill(dp, k) == IF dp # 0 THEN k \cup {dp} ELSE k

\* if (denoProcess) { ...; setTimeout(..., 500); denoProcess = undefined }
stopArmTimer(dp, t) == IF dp # 0 THEN t \cup {dp} ELSE t

\* A clearPreview that leaves the connection status as it was.
stopStatusKept(cur, ws) == [conn |-> cur, ws |-> "disconnected"]

\* previewProvider.clearPreview() followed by
\* diagnostics.updateWebSocketStatus('disconnected').
stopStatus(cur, ws) ==
  [conn |-> updateConnectionStatus(cur, ws, "unknown").conn, ws |-> "disconnected"]

\* The paths of `failed` still on disk, added to the history of refusals.
stillThere(old, failed, dk) == (old \cup failed) \cap dk

\* The whole of stopLivePreview as the values it leaves behind.
stopLivePreview(refuse) ==
  LET c == cleanupTempResources(tempResources, disk, refuse)
      s == stopStatus(connectionStatus, websocketStatus)
  IN  [killed |-> stopKill(denoProcess, killed),
       killTimers |-> stopArmTimer(denoProcess, killTimers),
       tempResources |-> c.tr, disk |-> c.dk,
       undeleted |-> stillThere(undeleted, c.failed, c.dk),
       connectionStatus |-> s.conn, websocketStatus |-> s.ws]

\* What of the tracked resources a cleanup can be refused.
Refusals == SUBSET (tempResources \cap disk)

\* The 'deno-live-preview.stop' command.
StopCommand(refuse) ==
    LET s == stopLivePreview(refuse) IN
    /\ denoProcess' = 0
    /\ killed' = s.killed
    /\ killTimers' = s.killTimers
    /\ fileWatcher' = FALSE
    /\ activePreviewFiles' = {}
    /\ tempResources' = s.tempResources
    /\ disk' = s.disk
    /\ undeleted' = s.undeleted
    /\ previewUrl' = 0
    /\ connectionStatus' = s.connectionStatus
    /\ healthCheckInterval' = -1
    /\ websocketStatus' = s.websocketStatus
    /\ serverRunning' = FALSE
    /\ UNCHANGED <<procVars, projectRoot, sinceCheck, fetches, forced, portTaken,
                   spawnCount, restart,
                 compVars>>

\* ------------------------------------------------------------ startLivePreview

\* The host's session state as the Process Supervisor's state machine sees it.
Running == denoProcess # 0 /\ previewUrl # 0 /\ fileWatcher

NextId == CHOOSE i \in Ids : pc[i] = "new" /\ \A j \in Ids : pc[j] = "new" => i <= j

\* start(): no active editor, or a document that is not previewable: an error
\* message and return.
StartRejected ==
  /\ \E i \in Ids : pc[i] = "new"
  /\ pc' = [pc EXCEPT ![NextId] = "aborted"]
  /\ outcome' = [outcome EXCEPT ![NextId] = "error"]
  /\ UNCHANGED <<file, serverFile, out, code, hostVars, provVars, diagVars,
                 envVars, histVars,
                 compVars>>

\* start() on a previewable document, up to `await document.save()`.
StartLivePreview(f) ==
  /\ \E i \in Ids : pc[i] = "new"
  /\ pc' = [pc EXCEPT ![NextId] = "save"]
  /\ file' = [file EXCEPT ![NextId] = f]
  /\ UNCHANGED <<serverFile, out, code, outcome, hostVars, provVars, diagVars,
                 envVars, histVars,
                 compVars>>

\* The continuation after the save: validatePath, projectRoot =
\* detectProjectRoot(filePath), up to `await diagnostics.checkDenoInstalled()`.
StartAfterSave(i) ==
  /\ pc[i] = "save"
  /\ pc' = [pc EXCEPT ![i] = "checks"]
  /\ projectRoot' = detectProjectRoot(file[i])
  /\ UNCHANGED <<file, serverFile, out, code, outcome, denoProcess, fileWatcher,
                 activePreviewFiles, tempResources, provVars, diagVars, envVars,
                 histVars,
                 compVars>>

\* checkDenoInstalled answered false (or threw): an error message and return.
StartDenoMissing(i) ==
  /\ pc[i] = "checks"
  /\ pc' = [pc EXCEPT ![i] = "aborted"]
  /\ outcome' = [outcome EXCEPT ![i] = "error"]
  /\ UNCHANGED <<file, serverFile, out, code, hostVars, provVars, diagVars,
                 envVars, histVars,
                 compVars>>

\* The last turn of start(), after runSystemCheck and isPortInUse resolved:
\* stop any existing preview, prepare the server file, spawn, install the
\* handlers, announce.  The answer of isPortInUse is only logged.
\* fail: how createTempResource fails; ok: whether the spawn succeeds (if not,
\* the child emits 'error').
StartSpawn(i, refuse, ok, fail) ==
  /\ pc[i] = "checks"
  /\   LET s   == stopLivePreview(refuse)
           gen == tempServerFile(file[i])
           t   == IF gen
                    THEN createTempResource(s.tempResources, s.disk, projectRoot, fail)
                    ELSE [tr |-> s.tempResources, dk |-> s.disk, threw |-> FALSE]
       IN
       /\ killed' = s.killed
       /\ killTimers' = s.killTimers
       /\ fileWatcher' = FALSE
       /\ tempResources' = t.tr
       /\ disk' = t.dk
       /\ undeleted' = s.undeleted
       /\ previewUrl' = 0
       /\ connectionStatus' = s.connectionStatus
       /\ healthCheckInterval' = -1
       /\ websocketStatus' = s.websocketStatus
       /\ IF t.threw
            THEN \* catch: showErrorMessage('Failed to start Live Preview: ...')
                 /\ pc' = [pc EXCEPT ![i] = "aborted"]
                 /\ outcome' = [outcome EXCEPT ![i] = "error"]
                 /\ denoProcess' = 0
                 /\ activePreviewFiles' = {}
                 /\ serverRunning' = FALSE
                 /\ UNCHANGED <<serverFile, out, code, spawnCount, restart, launch>>
            ELSE /\ pc' = [pc EXCEPT ![i] = IF ok THEN "alive" ELSE "failed"]
                 /\ launch' = [launch EXCEPT ![i] =
                                 [args |-> denoArgs(projectRoot,
                                                    IF gen THEN tempServerPath(projectRoot)
                                                    ELSE <<"document", file[i]>>),
                                  env |-> denoEnv(file[i])]]
                 /\ code' = [code EXCEPT ![i] = IF ok THEN "none" ELSE "spawnerr"]
                 /\ out' = [out EXCEPT ![i] = IF ok THEN "boot" ELSE "none"]
                 /\ serverFile' = [serverFile EXCEPT ![i] = IF gen THEN projectRoot ELSE "-"]
                 /\ outcome' = [outcome EXCEPT ![i] = "started"]
                 /\ denoProcess' = i
                 /\ activePreviewFiles' = {file[i]}
                 /\ serverRunning' = TRUE
                 /\ spawnCount' = spawnCount + 1
                 /\ restart' = IF Running /\ pc[denoProcess] = "alive"
                                 THEN <<denoProcess, i>> ELSE restart
  /\ UNCHANGED <<file, projectRoot, sinceCheck, fetches, forced, portTaken,
                 outsideLaunch>>

\* The callback of the 500 ms timer armed by the stop of child p: it reads the
\* module-level denoProcess and calls process.kill on its pid (which throws,
\* caught, when that child has no pid or is gone).
KillTimer(p) ==
  /\ p \in killTimers
  /\ killTimers' = killTimers \ {p}
  /\ forced' = IF denoProcess # 0 /\ pc[denoProcess] = "alive"
                 THEN forced \cup {denoProcess} ELSE forced
  /\ UNCHANGED <<procVars, hostVars, provVars, diagVars, disk, killed, portTaken,
                 histVars,
                 compVars>>

\* ------------------------------------------------- child-process callbacks

\* denoProcess.stdout.on('data'): appendOutput, then the 'Server running at:'
\* match: setPreviewUrl (which restarts the health check), setActiveFile,
\* setupFileWatcher(projectRoot).
StdoutData(p) ==
  /\ pc[p] \in {"alive", "exited"}
  /\ out[p] \in Chunks
  /\ out' = [out EXCEPT ![p] = "none"]
  /\ \E line \in {"established", "closed"} :
       LET st == outputStatus(out[p], line)
           u  == IF st = "" THEN [conn |-> connectionStatus, ws |-> websocketStatus]
                 ELSE updateConnectionStatus(connectionStatus, websocketStatus, st)
       IN  /\ connectionStatus' = u.conn
           /\ websocketStatus' = u.ws
  /\ IF out[p] = "running"
       THEN /\ previewUrl' = p
            /\ healthCheckInterval' = startHealthCheck(p)
            /\ fileWatcher' = (fileWatcher \/ projectRoot # "-")
       ELSE UNCHANGED <<previewUrl, healthCheckInterval, fileWatcher>>
  /\ UNCHANGED <<pc, file, serverFile, code, outcome, denoProcess, activePreviewFiles,
                 tempResources, projectRoot, sinceCheck, fetches, serverRunning,
                 envVars, histVars,
                 compVars>>

\* denoProcess.on('error'): logged.
ProcessError(p) ==
  /\ pc[p] = "failed"
  /\ pc' = [pc EXCEPT ![p] = "exited"]
  /\ UNCHANGED <<file, serverFile, out, code, outcome, hostVars, provVars, diagVars,
                 envVars, histVars,
                 compVars>>

\* A close handler that spawns the server again after a crash.
ProcessCloseRespawn(p, refused) ==
  /\ pc[p] = "exited"
  /\ out[p] \notin Chunks
  /\ ~refused
  /\ pc' = [pc EXCEPT ![p] = IF code[p] = "crash" THEN "alive" ELSE "closed"]
  /\ spawnCount' = IF code[p] = "crash" THEN spawnCount + 1 ELSE spawnCount
  /\ serverRunning' = (code[p] = "crash")
  /\ UNCHANGED <<file, serverFile, out, code, outcome, hostVars, provVars,
                 websocketStatus, envVars, undeleted, restart,
                 compVars>>

\* denoProcess.on('exit') (logged) and denoProcess.on('close'), which runs
\* once the child's stdout has been read to its end: updateServerStatus(false),
\* unlink of the call's temp server file if it exists.
ProcessClose(p, refused) ==
  /\ pc[p] = "exited"
  /\ out[p] \notin Chunks
  /\ pc' = [pc EXCEPT ![p] = "closed"]
  /\ serverRunning' = FALSE
  /\   LET path == tempServerPath(serverFile[p])
           hit  == serverFile[p] # "-" /\ path \in disk
       IN  /\ refused => hit
           /\ disk' = IF hit /\ ~refused THEN disk \ {path} ELSE disk
           /\ undeleted' = IF hit /\ refused THEN undeleted \cup {path} ELSE undeleted
  /\ UNCHANGED <<file, serverFile, out, code, outcome, hostVars, provVars,
                 websocketStatus, killed, forced, killTimers, portTaken, spawnCount,
                 restart,
                 compVars>>

\* ------------------------------------------------------------- the children

\* The child writes to stdout: the startup line 'Server running at:' (the
\* generated server logs it before it binds the port), later, once it serves,
\* the WebSocket connection lines.
ChildWrites(p) ==
  /\ pc[p] = "alive"
  /\ \/ out[p] = "boot" /\ out' = [out EXCEPT ![p] = "running"]
     \/ out[p] = "none" /\ ~portTaken /\ out' = [out EXCEPT ![p] = "ws"]
  /\ UNCHANGED <<pc, file, serverFile, code, outcome, hostVars, provVars, diagVars,
                 envVars, histVars,
                 compVars>>

\* The child exits: "crash" with a nonzero exit code (for one, when it cannot
\* bind the port), "clean" with code 0 or by a signal (code null).
ChildExits(p) ==
  /\ pc[p] = "alive"
  /\ \E c \in {"clean", "crash"} : code' = [code EXCEPT ![p] = c]
  /\ pc' = [pc EXCEPT ![p] = "exited"]
  /\ UNCHANGED <<file, serverFile, out, outcome, hostVars, provVars, diagVars,
                 envVars, histVars,
                 compVars>>

\* -------------------------------------------------------------- health check

\* 10 s pass.
Tick ==
  /\ healthCheckInterval # 0
  /\ healthCheckInterval > 0 \/ sinceCheck < HEALTH_INTERVAL
  /\ healthCheckInterval' = IF healthCheckInterval > 0 THEN healthCheckInterval - 1 ELSE -1
  /\ sinceCheck' = IF sinceCheck < HEALTH_INTERVAL THEN sinceCheck + 1 ELSE sinceCheck
  /\ UNCHANGED <<procVars, hostVars, previewUrl, connectionStatus, fetches, diagVars,
                 envVars, histVars,
                 compVars>>

\* A check that lets every call through.
rateLimitedNever(since) == FALSE

\* now - this._lastDiagnosticsCheck < 10000
rateLimited(since) == since < HEALTH_INTERVAL

\* The setInterval callback: checkServerHealth up to `await fetch(...)`.
checkServerHealth ==
  /\ healthCheckInterval = 0
  /\ healthCheckInterval' = HEALTH_INTERVAL
  /\ IF previewUrl # 0 /\ ~rateLimited(sinceCheck)
       THEN /\ Cardinality(fetches \cup {denoProcess}) <= MaxFetches
            /\ sinceCheck' = 0
            /\ fetches' = fetches \cup {denoProcess}
       ELSE UNCHANGED <<sinceCheck, fetches>>
  /\ UNCHANGED <<procVars, hostVars, previewUrl, connectionStatus, diagVars, envVars,
                 histVars,
                 compVars>>

\* What a diagnostics fetch can bring.  http: "failed" when fetch rejects (no
\* answer), else whether response.ok; json: response.json() parses the body;
\* active, total: activeWsConnections and wsConnections of the parsed body.
\* The body is not read unless the response is ok.
Responses ==
  {[http |-> h, json |-> FALSE, active |-> 0, total |-> 0] : h \in {"failed", "notok", "ok"}}
    \cup {[http |-> "ok", json |-> TRUE, active |-> a, total |-> t] : a, t \in 0..1}

\* The branch of checkServerHealth a response takes: catch or the else of
\* response.ok ("error"), else by the counters of the body.
pollResult(r) ==
  IF r.http = "failed" THEN "error"
  ELSE IF r.http # "ok" THEN "error"
  ELSE IF ~r.json THEN "error"
  ELSE IF r.active > 0 THEN "active"
  ELSE IF r.total > 0 /\ r.active = 0 THEN "inactive"
  ELSE "never"

\* The fetch begun for session s resolves (or rejects) with r and the rest of
\* checkServerHealth runs on it.  A dead server answers nothing the check
\* takes for good.
FetchBrings(s, r) ==
  /\ s \in fetches
  /\ fetches' = fetches \ {s}
  /\ (s = 0 \/ pc[s] # "alive" \/ portTaken) => pollResult(r) = "error"
  /\ LET st == pollStatus(pollResult(r))
         u  == IF st = "" THEN [conn |-> connectionStatus, ws |-> websocketStatus]
               ELSE updateConnectionStatus(connectionStatus, websocketStatus, st)
     IN  /\ connectionStatus' = u.conn
         /\ websocketStatus' = u.ws
  /\ UNCHANGED <<procVars, hostVars, previewUrl, healthCheckInterval, sinceCheck,
                 serverRunning, envVars, histVars,
                 compVars>>

FetchResolves(s) == \E r \in Responses : FetchBrings(s, r)

\* resolveWebviewView: the view is shown; startHealthCheck().
resolveWebviewView ==
  /\ healthCheckInterval' = startHealthCheck(previewUrl)
  /\ UNCHANGED <<procVars, hostVars, previewUrl, connectionStatus, sinceCheck, fetches,
                 diagVars, envVars, histVars,
                 compVars>>

\* ---------------------------------------------------------------- behaviours

Fails == {"none", "mkdir", "write"}

\* The session life cycle: commands, the turns of start(), timers, the
\* children and their callbacks, with every failure the filesystem and the
\* spawn can answer.  The health check and the WebSocket log lines are left to
\* HealthSpec: they read and write only the provider's connection status,
\* health timer and fetches, which no action below reads.
Next ==
  \/ StartRejected
  \/ \E f \in Files : StartLivePreview(f)
  \/ \E i \in Ids : StartAfterSave(i)
  \/ \E i \in Ids : StartDenoMissing(i)
  \/ \E i \in Ids, refuse \in Refusals, ok \in BOOLEAN, fail \in Fails :
       StartSpawn(i, refuse, ok, fail)
  \/ \E refuse \in Refusals : StopCommand(refuse)
  \/ \E p \in Ids : KillTimer(p)
  \/ \E p \in Ids : StdoutData(p)
  \/ \E p \in Ids : ProcessError(p)
  \/ \E p \in Ids, refused \in BOOLEAN : ProcessClose(p, refused)
  \/ \E p \in Ids : out[p] = "boot" /\ ChildWrites(p)
  \/ \E p \in Ids : ChildExits(p)

Spec == Init /\ [][Next]_vars

\* No start() call is between its first await and its last turn.
NoCallPending == \A i \in Ids : pc[i] \notin {"save", "checks"}

\* The part of the life cycle that decides which children are spawned and
\* which are signalled by stop: the turns of start() with their early returns,
\* the stop command, the exit of a child and its 'error' and 'close'
\* callbacks.  Left out are the actions that neither write pc, denoProcess,
\* killed or spawnCount nor enable an action that does: the stdout handler,
\* the 500 ms timer, the refusals of the filesystem at cleanup.
SpawnNext ==
  \/ StartRejected
  \/ \E f \in Files : StartLivePreview(f)
  \/ \E i \in Ids : StartAfterSave(i)
  \/ \E i \in Ids : StartDenoMissing(i)
  \/ \E i \in Ids, ok \in BOOLEAN, fail \in Fails : StartSpawn(i, {}, ok, fail)
  \/ StopCommand({})
  \/ \E p \in Ids : ProcessError(p)
  \/ \E p \in Ids : ProcessClose(p, FALSE)
  \/ \E p \in Ids : ChildExits(p)

SpawnSpec == Init /\ [][SpawnNext]_vars

\* One session after the other (no start() while another call is pending, the
\* spawn succeeds, the port is free) with everything that reads or writes the
\* connection status: the WebSocket log lines on stdout, the health check timer,
\* its fetches, the stop command.
HealthNext ==
  \/ /\ NoCallPending /\ ~portTaken
     /\ \E i \in 1..MaxSessions : pc[i] = "new"
     /\ StartLivePreview("a.html")
  \/ \E i \in Ids : StartAfterSave(i)
  \/ \E i \in Ids : StartSpawn(i, {}, TRUE, "none")
  \/ \E refuse \in Refusals : StopCommand(refuse)
  \/ \E p \in Ids : StdoutData(p)
  \/ \E p \in Ids : ProcessClose(p, FALSE)
  \/ \E p \in Ids : ChildWrites(p)
  \/ \E p \in Ids : ChildExits(p)
  \/ Tick
  \/ checkServerHealth
  \/ FetchResolves(0)
  \/ \E s \in Ids : FetchResolves(s)
  \/ resolveWebviewView

HealthSpec == Init /\ [][HealthNext]_vars

\* checkServerHealth() run at any moment, whatever the timer's state: up to
\* `await fetch(...)`, as in the callback.
CheckServerHealthCalled ==
  /\ IF previewUrl # 0 /\ ~rateLimited(sinceCheck)
       THEN /\ Cardinality(fetches \cup {denoProcess}) <= MaxFetches
            /\ sinceCheck' = 0
            /\ fetches' = fetches \cup {denoProcess}
       ELSE UNCHANGED <<sinceCheck, fetches>>
  /\ UNCHANGED <<procVars, hostVars, previewUrl, connectionStatus, healthCheckInterval,
                 diagVars, envVars, histVars, compVars>>

\* The health check with its method called as often as one likes.
PollNext ==
  \/ HealthNext
  \/ CheckServerHealthCalled

PollSpec == Init /\ [][PollNext]_vars

\* ---------------------------------------------------- Temp Resource Manager

Range(s) == {s[i] : i \in DOMAIN s}

\* tempResources.set(key, ...): a new key goes to the end of the map, a key
\* already there keeps its place.
recordKey(trk, key) == IF key \in Range(trk) THEN trk ELSE Append(trk, key)

\* The map's order after createTempResource under root r left the key set tr:
\* the directory is recorded before the file.
recordOrder(trk, tr, r) ==
  LET a == IF tempDir(r) \in tr THEN recordKey(trk, tempDir(r)) ELSE trk
  IN  IF tempServerPath(r) \in tr THEN recordKey(a, tempServerPath(r)) ELSE a

\* A cleanup made of one loop over the map, each entry deleted as it comes.
cleanupOnePass(trk, dk, refuse) ==
  LET Hit(x) == x \in dk
  IN  SelectSeq(trk, Hit)

\* The deletion calls of cleanupTempResources in the order they are made: the
\* first loop unlinks the tracked files that exist, in the map's order; the
\* second loop removes the tracked directories that exist then.
cleanupOrder(trk, dk, refuse) ==
  LET f == cleanupFiles(Range(trk), dk, refuse)
      FileHit(x) == x[1] = "file" /\ x \in dk
      DirHit(x)  == x[1] = "directory" /\ x \in f.dk
  IN  SelectSeq(trk, FileHit) \o SelectSeq(trk, DirHit)

\* The map's order once a cleanup left the key set tr.
keepOrder(trk, tr) ==
  LET Kept(x) == x \in tr
  IN  SelectSeq(trk, Kept)

\* The temp directories and server files a filesystem can hold: a file lies
\* in its directory.
Disks == {d \in SUBSET TempPaths :
            \A r \in Roots : tempServerPath(r) \in d => tempDir(r) \in d}

\* createTempResource(tempDir, '_temp_server.ts', serverCode), as start()
\* calls it for a project root.
CreateTempResource(r, fail) ==
  LET t == createTempResource(tempResources, disk, r, fail) IN
  /\ tempResources' = t.tr
  /\ disk' = t.dk
  /\ tracked' = recordOrder(tracked, t.tr, r)
  /\ inRow' = 0
  /\ UNCHANGED <<procVars, denoProcess, fileWatcher, activePreviewFiles, projectRoot,
                 provVars, diagVars, killed, forced, killTimers, portTaken, histVars,
                 deletions, outsideTemp>>

\* cleanupTempResources(), as stopLivePreview and deactivate call it.
CleanupTempResources(refuse) ==
  LET c == cleanupTempResources(tempResources, disk, refuse) IN
  /\ tempResources' = c.tr
  /\ disk' = c.dk
  /\ undeleted' = stillThere(undeleted, c.failed, c.dk)
  /\ tracked' = keepOrder(tracked, c.tr)
  /\ deletions' = cleanupOrder(tracked, disk, refuse)
  /\ inRow' = IF inRow < MaxCleanups THEN inRow + 1 ELSE inRow
  /\ UNCHANGED <<procVars, denoProcess, fileWatcher, activePreviewFiles, projectRoot,
                 provVars, diagVars, killed, forced, killTimers, portTaken,
                 spawnCount, restart, outsideTemp>>

\* fs.unlinkSync(serverFilePath) of a 'close' handler: the temp server file
\* under root r goes from disk, its entry stays in the map.
TempFileUnlinked(r) ==
  /\ tempServerPath(r) \in disk
  /\ disk' = disk \ {tempServerPath(r)}
  /\ undeleted' = undeleted \ {tempServerPath(r)}
  /\ UNCHANGED <<procVars, hostVars, provVars, diagVars, killed, forced, killTimers,
                 portTaken, spawnCount, restart, compVars>>

TempInit ==
  /\ HostIdle
  /\ disk \in Disks
  /\ portTaken = FALSE
  /\ CompInit

TempNext ==
  \/ \E r \in Roots, fail \in Fails : CreateTempResource(r, fail)
  \/ \E refuse \in Refusals : CleanupTempResources(refuse)
  \/ \E r \in Roots : TempFileUnlinked(r)

TempSpec == TempInit /\ [][TempNext]_vars

\* ----------------------------------------- generated server: Reload Broker

\* The signal denoProcess.kill() and process.kill(pid) send when called, as
\* stopLivePreview calls them, without a signal argument.
hostSignal == "SIGTERM"

\* The signals the generated server listens to (Deno.addSignalListener).
listenedSignals == {"SIGINT"}

\* serve(async (req) => { requests++, connections++, activeConnections++ ...
serveEnter(d) ==
  [d EXCEPT !.requests = @ + 1, !.connections = @ + 1, !.activeConnections = @ + 1]

\* A handler without the finally block.
serveLeaveKeeps(d) == d

\* ... finally { activeConnections-- } })
serveLeave(d) == [d EXCEPT !.activeConnections = @ - 1]

\* socket.onopen
onopen(cl, s) == cl \cup {s}

\* socket.onclose
onclose(cl, s) == cl \ {s}

\* An error handler that leaves the socket in the set.
onerrorKeeps(cl, s) == cl

\* socket.onerror
onerror(cl, s) == cl \ {s}

\* A broadcast that does not look at the ready-state.
broadcastAll(cl, rs) == [s \in Sockets |-> IF s \in cl THEN 1 ELSE 0]

\* for (const client of clients) if (client.readyState === 1) client.send("reload"):
\* the number of payloads each socket is sent.
broadcast(cl, rs) == [s \in Sockets |-> IF s \in cl /\ rs[s] = "open" THEN 1 ELSE 0]

NextSocket ==
  CHOOSE s \in Sockets : readyState[s] = "none" /\ \A t \in Sockets : readyState[t] = "none" => s <= t

\* The top level of the generated program: the startup log lines, the
\* watcher (watchOk: Deno.watchFs does not throw), serve({ port }), which
\* fails when the port is bound by another process.
ServerStarts(watchOk) ==
  /\ server = "starting"
  /\ watcher' = IF watchOk THEN "watching" ELSE "none"
  /\ diagnostics' = IF watchOk THEN diagnostics ELSE [diagnostics EXCEPT !.errors = @ + 1]
  /\ server' = IF portTaken THEN "exited" ELSE "serving"
  /\ UNCHANGED <<outsideBroker, exitSignal, readyState, queued, seen, clients, sent>>

\* A handler that upgrades whatever the request's headers say.
lrWsStatusUpgradesAll(upgrade, ok) == 101

\* The HTTP status of the answer to a request to /_lr_ws: 501 without the
\* upgrade header, 500 when Deno.upgradeWebSocket throws, else the 101 of the
\* upgrade response.
lrWsStatus(upgrade, ok) ==
  IF ~upgrade THEN 501
  ELSE IF ~ok THEN 500
  ELSE 101

\* A request to /_lr_ws.  upgrade: it carries `upgrade: websocket` (if not,
\* 501); ok: Deno.upgradeWebSocket does not throw (if it does, 500).
LrWsRequest(upgrade, ok) ==
  /\ server = "serving"
  /\ \E s \in Sockets : readyState[s] = "none"
  /\ LET d == [serveEnter(diagnostics) EXCEPT !.wsConnections = @ + 1,
                                              !.activeWsConnections = @ + 1]
         status == lrWsStatus(upgrade, ok)
         e == IF status = 101 THEN d ELSE [d EXCEPT !.errors = @ + 1]
     IN  /\ diagnostics' = serveLeave(e)
         /\ readyState' = [readyState EXCEPT ![NextSocket] =
                             IF status = 501 THEN "rejected"
                             ELSE IF status = 500 THEN "failed" ELSE "connecting"]
  /\ sent' = NoneSent
  /\ UNCHANGED <<outsideBroker, server, exitSignal, watcher, queued, seen, clients>>

\* The handshake of socket s completes: it is open and its onopen runs.
SocketOpens(s) ==
  /\ server = "serving"
  /\ readyState[s] = "connecting"
  /\ readyState' = [readyState EXCEPT ![s] = "open"]
  /\ seen' = [seen EXCEPT ![s] = @ \cup {"open"}]
  /\ clients' = onopen(clients, s)
  /\ sent' = NoneSent
  /\ UNCHANGED <<outsideBroker, server, exitSignal, watcher, queued, diagnostics>>

\* The peer closes socket s: it is closed, its close event is queued.
SocketCloses(s) ==
  /\ server = "serving"
  /\ readyState[s] = "open"
  /\ readyState' = [readyState EXCEPT ![s] = "closed"]
  /\ queued' = [queued EXCEPT ![s] = {"close"}]
  /\ sent' = NoneSent
  /\ UNCHANGED <<outsideBroker, server, exitSignal, watcher, seen, clients, diagnostics>>

\* Socket s fails, in the handshake or open: it is closed, its error event
\* and its close event are queued.
SocketFails(s) ==
  /\ server = "serving"
  /\ readyState[s] \in {"connecting", "open"}
  /\ readyState' = [readyState EXCEPT ![s] = "closed"]
  /\ queued' = [queued EXCEPT ![s] = {"error", "close"}]
  /\ sent' = NoneSent
  /\ UNCHANGED <<outsideBroker, server, exitSignal, watcher, seen, clients, diagnostics>>

\* The error event of socket s is dispatched: socket.onerror.
SocketOnError(s) ==
  /\ server = "serving"
  /\ "error" \in queued[s]
  /\ queued' = [queued EXCEPT ![s] = @ \ {"error"}]
  /\ seen' = [seen EXCEPT ![s] = @ \cup {"error"}]
  /\ clients' = onerror(clients, s)
  /\ diagnostics' = [diagnostics EXCEPT !.errors = @ + 1, !.activeWsConnections = @ - 1]
  /\ sent' = NoneSent
  /\ UNCHANGED <<outsideBroker, server, exitSignal, watcher, readyState>>

\* The close event of socket s is dispatched, after its error event if there
\* is one: socket.onclose.
SocketOnClose(s) ==
  /\ server = "serving"
  /\ queued[s] = {"close"}
  /\ queued' = [queued EXCEPT ![s] = {}]
  /\ seen' = [seen EXCEPT ![s] = @ \cup {"close"}]
  /\ clients' = onclose(clients, s)
  /\ diagnostics' = [diagnostics EXCEPT !.activeWsConnections = @ - 1]
  /\ sent' = NoneSent
  /\ UNCHANGED <<outsideBroker, server, exitSignal, watcher, readyState>>

\* An event of the server's watcher: the body of `for await (const event of
\* watcher)`.
WatcherEvent(kind) ==
  /\ server = "serving"
  /\ watcher = "watching"
  /\ sent' = IF kind \in {"modify", "create"} THEN broadcast(clients, readyState)
                                               ELSE NoneSent
  /\ UNCHANGED <<outsideBroker, server, exitSignal, watcher, readyState, queued,
                 seen, clients, diagnostics>>

\* The server process gets a signal.  One it listens to runs the listener
\* (watcher.close(), client.close() for every client, Deno.exit(0)); any
\* other ends the process there and then.
ServerSignalled(sig) ==
  /\ server = "serving"
  /\ server' = "exited"
  /\ exitSignal' = sig
  /\ IF sig \in listenedSignals
       THEN /\ watcher' = IF watcher = "watching" THEN "closed" ELSE watcher
            /\ readyState' = [s \in Sockets |->
                                IF s \in clients /\ readyState[s] = "open"
                                  THEN "closing" ELSE readyState[s]]
       ELSE UNCHANGED <<watcher, readyState>>
  /\ sent' = NoneSent
  /\ UNCHANGED <<outsideBroker, queued, seen, clients, diagnostics>>

BrokerNext ==
  \/ \E watchOk \in BOOLEAN : ServerStarts(watchOk)
  \/ \E upgrade, ok \in BOOLEAN : LrWsRequest(upgrade, ok)
  \/ \E s \in Sockets : SocketOpens(s)
  \/ \E s \in Sockets : SocketCloses(s)
  \/ \E s \in Sockets : SocketFails(s)
  \/ \E s \in Sockets : SocketOnError(s)
  \/ \E s \in Sockets : SocketOnClose(s)
  \/ \E kind \in {"modify", "create", "remove"} : WatcherEvent(kind)
  \/ \E sig \in {hostSignal, "SIGINT"} : ServerSignalled(sig)

BrokerSpec == Init /\ [][BrokerNext]_vars

\* --------------------------------------------------------------------------
\* The Reload Client: the script served at /_lr_script.js, in one page.  Each
\* action is one turn of the page's event loop.

BASE_DELAY == 1000
MAX_DELAY == 10000

RECURSIVE Pow(_, _)
Pow(b, n) == IF n = 0 THEN 1 ELSE b * Pow(b, n - 1)

\* Math.min(1000 * Math.pow(1.5, n), 10000), in whole milliseconds.
reconnectDelay(n) ==
  LET raw == (BASE_DELAY * Pow(3, n)) \div Pow(2, n)
  IN  IF raw < MAX_DELAY THEN raw ELSE MAX_DELAY

\* socket.close() on the object k: a socket still connecting fails (error, then
\* close), an open one closes; one already closing or closed is left as it is.
closeState(st) == IF st \in {"connecting", "open"} THEN "closing" ELSE st
closeQueued(st, q) ==
  IF st = "connecting" THEN {"error", "close"}
  ELSE IF st = "open" THEN {"close"}
  ELSE q

\* reconnect(), called in a turn that has brought the WebSocket objects to
\* (st, q) and the pending timers to t: closes and forgets the current socket,
\* counts the attempt, then computes the delay from the count and arms a timer.
\* `gone` is the object whose close event the turn dispatched, 0 if none.
reconnect(st, q, t, gone) ==
  /\ reconnectAttempts < MaxAttempts
  /\ t < MaxTimers
  /\ LET st1 == IF socket = 0 THEN st
                ELSE [st EXCEPT ![socket] = closeState(st[socket])]
     IN  wsState' = IF gone = 0 THEN st1 ELSE [st1 EXCEPT ![gone] = "none"]
  /\ wsQueued' = IF socket = 0 THEN q
                 ELSE [q EXCEPT ![socket] = closeQueued(st[socket], q[socket])]
  /\ socket' = 0
  /\ reconnectAttempts' = reconnectAttempts + 1
  /\ delay' = reconnectDelay(reconnectAttempts + 1)
  /\ reconnectTimers' = t + 1
  /\ afterOpen' = CASE afterOpen = "never" -> "never"
                    [] afterOpen = "open" -> "first"
                    [] OTHER -> "later"

\* connectWebSocket(): the new object replaces whatever `socket` referred to.
connectWebSocket(k) ==
  /\ wsState[k] = "none"
  /\ socket' = k
  /\ wsState' = [wsState EXCEPT ![k] = "connecting"]
  /\ wsQueued' = [wsQueued EXCEPT ![k] = {}]

\* The script runs: it arms the 5 s interval and calls connectWebSocket().
ScriptLoads ==
  /\ ~loaded
  /\ loaded' = TRUE
  /\ connectWebSocket(1)
  /\ UNCHANGED <<outsideClient, reconnectAttempts, reconnectTimers, delay, afterOpen>>

\* A reconnect timer fires.  `throws`: new WebSocket(...) threw, and the catch
\* block called reconnect().
ReconnectTimerFires(throws) ==
  /\ loaded
  /\ reconnectTimers > 0
  /\ IF throws
       THEN reconnect(wsState, wsQueued, reconnectTimers - 1, 0)
       ELSE /\ \E k \in WebSockets :
                 /\ \A j \in WebSockets : j < k => wsState[j] # "none"
                 /\ connectWebSocket(k)
            /\ reconnectTimers' = reconnectTimers - 1
            /\ UNCHANGED <<reconnectAttempts, delay, afterOpen>>
  /\ UNCHANGED <<outsideClient, loaded>>

\* The connection of object k is established: onopen.
WsOnOpen(k) ==
  /\ wsState[k] = "connecting"
  /\ wsState' = [wsState EXCEPT ![k] = "open"]
  /\ reconnectAttempts' = 0
  /\ afterOpen' = "open"
  /\ UNCHANGED <<outsideClient, loaded, socket, wsQueued, reconnectTimers, delay>>

\* The connection of object k fails or is lost: the browser queues `close`,
\* preceded by `error` unless an open connection was closed cleanly.
WsDrops(k, clean) ==
  /\ wsState[k] \in {"connecting", "open"}
  /\ clean => wsState[k] = "open"
  /\ wsState' = [wsState EXCEPT ![k] = "closed"]
  /\ wsQueued' = [wsQueued EXCEPT ![k] = IF clean THEN {"close"} ELSE {"error", "close"}]
  /\ UNCHANGED <<outsideClient, loaded, reconnectAttempts, socket, reconnectTimers,
                 delay, afterOpen>>

\* The `error` event of object k is dispatched: onerror calls reconnect().
WsOnError(k) ==
  /\ "error" \in wsQueued[k]
  /\ reconnect(wsState, [wsQueued EXCEPT ![k] = @ \ {"error"}], reconnectTimers, 0)
  /\ UNCHANGED <<outsideClient, loaded>>

\* The `close` event of object k is dispatched: onclose calls reconnect().  The
\* object is not heard of again.
WsOnClose(k) ==
  /\ wsQueued[k] = {"close"}
  /\ reconnect([wsState EXCEPT ![k] = "closed"], [wsQueued EXCEPT ![k] = {}],
               reconnectTimers, k)
  /\ UNCHANGED <<outsideClient, loaded>>

\* The 5 s interval finds `socket` closing or closed (readyState > 1).
ConnectionCheck ==
  /\ loaded
  /\ socket # 0
  /\ wsState[socket] \in {"closing", "closed"}
  /\ reconnect(wsState, wsQueued, reconnectTimers, 0)
  /\ UNCHANGED <<outsideClient, loaded>>

\* onmessage gets "reload" on the open object k: location.reload() discards
\* the page with its script, sockets and timers.
WsOnReload(k) ==
  /\ wsState[k] = "open"
  /\ loaded' = FALSE
  /\ reconnectAttempts' = 0
  /\ socket' = 0
  /\ wsState' = [j \in WebSockets |-> "none"]
  /\ wsQueued' = [j \in WebSockets |-> {}]
  /\ reconnectTimers' = 0
  /\ delay' = 0
  /\ afterOpen' = "never"
  /\ UNCHANGED outsideClient

ClientNext ==
  \/ ScriptLoads
  \/ \E throws \in BOOLEAN : ReconnectTimerFires(throws)
  \/ \E k \in WebSockets : WsOnOpen(k)
  \/ \E k \in WebSockets, clean \in BOOLEAN : WsDrops(k, clean)
  \/ \E k \in WebSockets : WsOnError(k)
  \/ \E k \in WebSockets : WsOnClose(k)
  \/ ConnectionCheck
  \/ \E k \in WebSockets : WsOnReload(k)

ClientSpec == Init /\ [][ClientNext]_vars

\* --------------------------------------------------------------------------
\* The host's refresh triggers: the file watcher set up when the server's
\* startup line is read, the save listener and the refresh command, during one
\* session at a time.

\* refreshPreview(): the provider counts the refresh and posts it to the view.
refreshPreview ==
  /\ refreshCounter < MaxRefreshes
  /\ refreshCounter' = refreshCounter + 1

\* fileWatcher.onDidChange: a file matching **/*.{html,css,js,ts} under the
\* project root changed.  The handler calls refreshPreview(false) in the same
\* turn when a child is current; it arms no timer.
WatcherChange(f) ==
  /\ fileWatcher
  /\ f \in Files
  /\ LET inBurst == changes >= 1 /\ ~windowPassed
         before == IF inBurst THEN burstRefreshes ELSE 0
     IN  /\ inBurst => changes < MaxChanges
         /\ changes' = IF inBurst THEN changes + 1 ELSE 1
         /\ IF denoProcess # 0
              THEN /\ refreshPreview
                   /\ burstRefreshes' = before + 1
              ELSE /\ burstRefreshes' = before
                   /\ UNCHANGED refreshCounter
  /\ windowPassed' = FALSE
  /\ UNCHANGED <<outsideWatch, debounceTimer>>

\* The debounce window passes without a change event.
DebounceWindowPasses ==
  /\ changes >= 1
  /\ ~windowPassed
  /\ windowPassed' = TRUE
  /\ UNCHANGED <<outsideWatch, refreshCounter, debounceTimer, changes, burstRefreshes>>

\* onDidSaveTextDocument: refreshes at once when autoRefresh is set and the
\* document is the previewed file.
DocumentSaved(f, autoRefresh) ==
  /\ autoRefresh
  /\ f \in activePreviewFiles
  /\ refreshPreview
  /\ UNCHANGED <<outsideWatch, debounceTimer, changes, burstRefreshes, windowPassed>>

\* The command deno-live-preview.refresh.
RefreshCommand ==
  /\ refreshPreview
  /\ UNCHANGED <<outsideWatch, debounceTimer, changes, burstRefreshes, windowPassed>>

WatchNext ==
  \/ /\ NoCallPending /\ ~portTaken
     /\ \E i \in 1..MaxSessions : pc[i] = "new"
     /\ StartLivePreview("a.html")
  \/ \E i \in Ids : StartAfterSave(i)
  \/ \E i \in Ids : StartSpawn(i, {}, TRUE, "none")
  \/ \E refuse \in Refusals : StopCommand(refuse)
  \/ \E p \in Ids : StdoutData(p)
  \/ \E p \in Ids : ChildWrites(p)
  \/ \E f \in Files : WatcherChange(f)
  \/ DebounceWindowPasses
  \/ \E f \in Files, autoRefresh \in BOOLEAN : DocumentSaved(f, autoRefresh)
  \/ RefreshCommand

WatchSpec == Init /\ [][WatchNext]_vars

\* --------------------------------------------------------------------------
\* The generated server's answers to requests for the HTML page.

Bodies == UNION {[1..n -> HtmlPieces] : n \in 0..MaxBody}

\* text.includes("/_lr_script.js")
includesScriptRef(text) == \E i \in DOMAIN text : text[i] \in {SCRIPT_TAG, SCRIPT_REF}

\* text.replace("</head>", `<script src="/_lr_script.js"></script></head>`):
\* a string pattern replaces the first occurrence only, and nothing when there
\* is none.
replaceHeadEnd(text) ==
  IF \A i \in DOMAIN text : text[i] # HEAD_END THEN text
  ELSE LET i == CHOOSE j \in DOMAIN text :
                  text[j] = HEAD_END /\ \A k \in 1..(j - 1) : text[k] # HEAD_END
       IN  SubSeq(text, 1, i - 1) \o <<SCRIPT_TAG, HEAD_END>> \o SubSeq(text, i + 1, Len(text))

\* The body returned for an HTML response whose text is `text`.
injectReloadScript(text) ==
  IF ~includesScriptRef(text) THEN replaceHeadEnd(text) ELSE text

\* Occurrences of the reload script tag in a text.
scriptTags(text) == Cardinality({i \in DOMAIN text : text[i] = SCRIPT_TAG})

\* The user saves the HTML file with some text.
HtmlFileSaved(body) ==
  /\ body \in Bodies
  /\ body # htmlFile
  /\ htmlFile' = body
  /\ UNCHANGED <<outsideServer, brokerVars, htmlPending, htmlResponse>>

\* A request for the page (a path ending in .html, or /) enters the handler,
\* which counts it and awaits serveDir.
HtmlRequest ==
  /\ server = "serving"
  /\ diagnostics.requests < MaxRequests
  /\ diagnostics' = serveEnter(diagnostics)
  /\ htmlPending' = htmlPending + 1
  /\ UNCHANGED <<outsideServer, server, exitSignal, watcher, readyState, queued, seen,
                 clients, sent, htmlFile, htmlResponse>>

\* serveDir settles and the handler returns.  result: "html", the file is
\* served as text/html and is passed through the injection; "other", serveDir's
\* response is not HTML (the file is missing) and is returned as it is;
\* "throws", answered with 500.
HtmlResponds(result) ==
  /\ server = "serving"
  /\ htmlPending > 0
  /\ htmlPending' = htmlPending - 1
  /\ htmlResponse' = CASE result = "html" ->
                            [kind |-> "html", body |-> injectReloadScript(htmlFile)]
                       [] result = "other" -> [kind |-> "other", body |-> <<>>]
                       [] OTHER -> [kind |-> "error", body |-> <<>>]
  /\ diagnostics' = serveLeave(IF result = "throws"
                                 THEN [diagnostics EXCEPT !.errors = @ + 1]
                                 ELSE diagnostics)
  /\ UNCHANGED <<outsideServer, server, exitSignal, watcher, readyState, queued, seen,
                 clients, sent, htmlFile>>

InjectNext ==
  \/ \E watchOk \in BOOLEAN : ServerStarts(watchOk)
  \/ \E body \in Bodies : HtmlFileSaved(body)
  \/ HtmlRequest
  \/ \E result \in {"html", "other", "throws"} : HtmlResponds(result)

InjectSpec == Init /\ [][InjectNext]_vars

\* A request to /_diagnostics: the handler answers with the counters, without
\* an await.
DiagnosticsRequest ==
  /\ server = "serving"
  /\ diagnostics.requests < MaxRequests
  /\ diagnostics' = serveLeave(serveEnter(diagnostics))
  /\ UNCHANGED <<outsideServer, server, exitSignal, watcher, readyState, queued, seen,
                 clients, sent, injectVars>>

\* The ways through the request handler, for the counters of `diagnostics`:
\* the answers without an await, the page requests that await serveDir.
RequestNext ==
  \/ \E watchOk \in BOOLEAN : ServerStarts(watchOk)
  \/ DiagnosticsRequest
  \/ \E upgrade, ok \in BOOLEAN : LrWsRequest(upgrade, ok)
  \/ HtmlRequest
  \/ \E result \in {"html", "other", "throws"} : HtmlResponds(result)

RequestSpec == Init /\ [][RequestNext]_vars

\* --------------------------------------------------------------------------
\* Project root detection, on every chain of directories from the edited file
\* up to the filesystem root.

maxSearchDepth == 10

\* validatePath: the absolute path of the file.  `recorded` (projectRoot) is
\* read for a warning only.
validatePath(filePath, recorded) == filePath

\* The while loop of detectProjectRoot from directory dir with searchDepth
\* steps done: the first directory holding a marker, 0 when the loop ends at
\* the root or at the depth limit.
RECURSIVE searchUp(_, _, _)
searchUp(l, dir, searchDepth) ==
  IF dir # l.n /\ searchDepth < maxSearchDepth
    THEN IF dir \in l.markers THEN dir
         ELSE searchUp(l, dir + 1, searchDepth + 1)
    ELSE 0

\* A detection that searches only while the host has no root recorded.
detectUnlessRecorded(l, recorded, failed) ==
  IF recorded # 0 \/ failed \/ searchUp(l, 1, 0) = 0 THEN 1 ELSE searchUp(l, 1, 0)

\* detectProjectRoot on the layout l, for the file validatePath returns (its
\* directory is 1).  failed: something in the try block throws, and the catch
\* returns the file's own directory.
detectOnLayout(l, recorded, failed) ==
  IF failed THEN 1
  ELSE LET found == searchUp(l, validatePath(1, recorded), 0)
       IN  IF found # 0 THEN found ELSE validatePath(1, recorded)

\* The filesystem changes by one marker file written or removed, or by the
\* tree lying one directory deeper or less deep below the filesystem root.
LayoutChanges(l) ==
  /\ l.n \in 1..MaxChain
  /\ Cardinality(l.markers) <= MaxMarkers
  /\ l # layout
  /\ layout' = l
  /\ detected' = NoneDetected
  /\ detectedBefore' = NoneDetected
  /\ UNCHANGED <<outsideRoot, rootRecorded>>

MarkerWritten(k) == LayoutChanges([layout EXCEPT !.markers = @ \cup {k}])

MarkerRemoved(k) == LayoutChanges([layout EXCEPT !.markers = @ \ {k}])

TreeMoved(n) == LayoutChanges([n |-> n, markers |-> layout.markers \cap 1..n])

\* start() on the file: projectRoot = detectProjectRoot(filePath).
DetectProjectRoot(failed) ==
  /\ detectedBefore' = detected
  /\ detected' = [dir |-> detectOnLayout(layout, rootRecorded, failed), failed |-> failed,
                   root |-> rootRecorded]
  /\ rootRecorded' = detected'.dir
  /\ UNCHANGED <<outsideRoot, layout>>

RootNext ==
  \/ \E k \in 1..layout.n : MarkerWritten(k)
  \/ \E k \in layout.markers : MarkerRemoved(k)
  \/ \E n \in {layout.n - 1, layout.n + 1} : TreeMoved(n)
  \/ \E failed \in BOOLEAN : DetectProjectRoot(failed)

RootSpec == Init /\ [][RootNext]_vars

\* --------------------------------------------------------------------------
\* The port the generated server listens on, for every value of DENO_PORT made
\* of a few characters.

FALLBACK_PORT == 8000

PortChars == {"0", "7", "8", "-", "a"}
PortTexts == UNION {[1..n -> PortChars] : n \in 0..MaxPortLen}

isDigits(t) == \A i \in DOMAIN t : t[i] \in {"0", "7", "8"}

digit(c) == IF c = "7" THEN 7 ELSE IF c = "8" THEN 8 ELSE 0

RECURSIVE decimal(_)
decimal(t) == IF t = <<>> THEN 0 ELSE 10 * decimal(SubSeq(t, 1, Len(t) - 1)) + digit(t[Len(t)])

\* Number(text) on these characters: [nan, value].  The empty string is 0, a
\* run of digits its decimal value, with one leading '-' its negative, all
\* else NaN.
Number(t) ==
  IF isDigits(t) THEN [nan |-> FALSE, value |-> decimal(t)]
  ELSE IF t[1] = "-" /\ Len(t) > 1 /\ isDigits(Tail(t))
    THEN [nan |-> FALSE, value |-> 0 - decimal(Tail(t))]
  ELSE [nan |-> TRUE, value |-> 0]

\* const portStr = Deno.env.get("DENO_PORT") || "8000";
\* const port = Number.isNaN(Number(portStr)) ? 8000 : Number(portStr);
parsePort(env) ==
  LET portStr == IF ~env.set \/ env.text = <<>> THEN <<"8", "0", "0", "0">> ELSE env.text
  IN  IF Number(portStr).nan THEN FALLBACK_PORT ELSE Number(portStr).value

\* A server process about to run, with DENO_PORT unset or set to any text.
PortInit ==
  /\ HostIdle
  /\ disk = {}
  /\ portTaken = FALSE
  /\ LaunchIdle /\ TempIdle /\ BrokerIdle /\ ClientIdle /\ WatchIdle /\ InjectIdle /\ RootIdle
  /\ ScrapeIdle /\ ProviderIdle
  /\ denoPort \in {[set |-> FALSE, text |-> <<>>]} \cup [set : {TRUE}, text : PortTexts]
  /\ servePort = NotServed

\* The program runs to serve(handler, { port }).
ServeCalled ==
  /\ ~servePort.called
  /\ servePort' = [called |-> TRUE, port |-> parsePort(denoPort)]
  /\ UNCHANGED <<outsidePort, denoPort>>

PortNext == ServeCalled

PortSpec == PortInit /\ [][PortNext]_vars

\* --------------------------------------------------------------------------
\* The connection status the host takes from the server's stdout: the log
\* lines of the socket callbacks, read by the stdout handler in chunks.

Peers == 1..MaxPeers

\* The log lines told apart: the three WebSocket lines appendOutput looks for,
\* and any other line.
LogLines == {"established", "closed", "wserror", "other"}

\* A chunk includes a line of the kind.
includes(chunk, line) == \E i \in DOMAIN chunk : chunk[i] = line

\* appendOutput: the status a chunk leads to ("" for none).
\* if (output.includes('WebSocket connection established')) connected
\* else if (output.includes('WebSocket connection closed') ||
\*          output.includes('WebSocket error')) disconnected
appendOutput(chunk) ==
  IF includes(chunk, "established") THEN "connected"
  ELSE IF includes(chunk, "closed") \/ includes(chunk, "wserror") THEN "disconnected"
  ELSE ""

\* socket.onopen of client c: log "WebSocket connection established".
PeerOpens(c) ==
  /\ c \notin peers \cup erred
  /\ Len(pipe) < MaxPipe
  /\ peers' = peers \cup {c}
  /\ pipe' = Append(pipe, "established")
  /\ UNCHANGED <<outsideScrape, connectionStatus, websocketStatus, erred>>

\* socket.onclose of client c: log "WebSocket connection closed".
PeerCloses(c) ==
  /\ c \in peers \cup erred
  /\ Len(pipe) < MaxPipe
  /\ peers' = peers \ {c}
  /\ erred' = erred \ {c}
  /\ pipe' = Append(pipe, "closed")
  /\ UNCHANGED <<outsideScrape, connectionStatus, websocketStatus>>

\* socket.onerror of client c: log "WebSocket error: ..."; its close event
\* follows.
PeerErrors(c) ==
  /\ c \in peers
  /\ Len(pipe) < MaxPipe
  /\ peers' = peers \ {c}
  /\ erred' = erred \cup {c}
  /\ pipe' = Append(pipe, "wserror")
  /\ UNCHANGED <<outsideScrape, connectionStatus, websocketStatus>>

\* Any other log line of the server.
ServerLogs ==
  /\ Len(pipe) < MaxPipe
  /\ pipe' = Append(pipe, "other")
  /\ UNCHANGED <<outsideScrape, connectionStatus, websocketStatus, peers, erred>>

\* stdout.on('data') with the first n unread lines as one chunk:
\* previewProvider.appendOutput(output).
StdoutChunk(n) ==
  /\ n \in 1..Len(pipe)
  /\ LET st == appendOutput(SubSeq(pipe, 1, n))
         u  == IF st = "" THEN [conn |-> connectionStatus, ws |-> websocketStatus]
               ELSE updateConnectionStatus(connectionStatus, websocketStatus, st)
     IN  /\ connectionStatus' = u.conn
         /\ websocketStatus' = u.ws
  /\ pipe' = SubSeq(pipe, n + 1, Len(pipe))
  /\ UNCHANGED <<outsideScrape, peers, erred>>

ScrapeNext ==
  \/ \E c \in Peers : PeerOpens(c)
  \/ \E c \in Peers : PeerCloses(c)
  \/ \E c \in Peers : PeerErrors(c)
  \/ ServerLogs
  \/ \E n \in 1..MaxPipe : StdoutChunk(n)

ScrapeSpec == Init /\ [][ScrapeNext]_vars

\* --------------------------------------------------------------------------
\* The preview provider's health-check timers, with the timers that are armed
\* kept apart from the one the provider holds.

\* stopHealthCheck: if (_healthCheckInterval) { clearInterval(it); it = undefined }
stopHealthCheckTimer(id, armed) ==
  IF id # 0 THEN [id |-> 0, armed |-> armed \ {id}] ELSE [id |-> id, armed |-> armed]

\* A start that arms a timer without clearing the one held.
startHealthCheckKeeps(id, armed, url, n) ==
  IF url = 0 THEN stopHealthCheckTimer(id, armed)
  ELSE [id |-> n + 1, armed |-> armed \cup {n + 1}]

\* startHealthCheck: stopHealthCheck(); if (!_previewUrl) return;
\* _healthCheckInterval = setInterval(..., 10000).  n: the timers armed so far.
startHealthCheckTimer(id, armed, url, n) ==
  LET s == stopHealthCheckTimer(id, armed)
  IN  IF url = 0 THEN s ELSE [id |-> n + 1, armed |-> s.armed \cup {n + 1}]

\* The provider's fields after startHealthCheck() with the preview URL url.
StartHealthCheck(url) ==
  LET t == startHealthCheckTimer(intervalId, intervals, url, armCount)
  IN  /\ url # 0 => armCount < MaxArms
      /\ intervalId' = t.id
      /\ intervals' = t.armed
      /\ armCount' = IF url = 0 THEN armCount ELSE armCount + 1

\* resolveWebviewView: _view = webviewView, ..., startHealthCheck().
ViewResolved ==
  /\ view' = TRUE
  /\ StartHealthCheck(previewUrl)
  /\ UNCHANGED <<outsideProvider, previewUrl, connectionStatus, websocketStatus>>

\* setPreviewUrl(url): 0 stands for the empty string.
SetPreviewUrl(url) ==
  /\ previewUrl' = url
  /\ StartHealthCheck(url)
  /\ UNCHANGED <<outsideProvider, view, connectionStatus, websocketStatus>>

\* The provider's fields after clearPreview(), called with the timer fields
\* (id, armed).
clearPreview(id, armed) ==
  LET u == updateConnectionStatus(connectionStatus, websocketStatus, "unknown")
      t == stopHealthCheckTimer(id, armed)
  IN  /\ previewUrl' = 0
      /\ connectionStatus' = u.conn
      /\ websocketStatus' = u.ws
      /\ intervalId' = t.id
      /\ intervals' = t.armed

\* clearPreview()
ClearPreview ==
  /\ clearPreview(intervalId, intervals)
  /\ UNCHANGED <<outsideProvider, view, armCount>>

\* dispose(): stopHealthCheck(), clearPreview(), _view = undefined.
Dispose ==
  /\ LET t == stopHealthCheckTimer(intervalId, intervals)
     IN  clearPreview(t.id, t.armed)
  /\ view' = FALSE
  /\ UNCHANGED <<outsideProvider, armCount>>

\* The webview posts `connectionStatus`: updateConnectionStatus(message.status).
ViewPostsStatus(status) ==
  /\ view
  /\ LET u == updateConnectionStatus(connectionStatus, websocketStatus, status)
     IN  /\ connectionStatus' = u.conn
         /\ websocketStatus' = u.ws
  /\ UNCHANGED <<outsideProvider, previewUrl, timerVars>>

ProviderNext ==
  \/ ViewResolved
  \/ \E url \in 0..MaxStarts : SetPreviewUrl(url)
  \/ ClearPreview
  \/ Dispose
  \/ \E status \in Status : ViewPostsStatus(status)

ProviderSpec == Init /\ [][ProviderNext]_vars

\* ------------------------------------------------------------------- claims

NumStarts == Cardinality({i \in Ids : pc[i] # "new"})
NumSpawned == Cardinality({i \in Ids : pc[i] \in Spawned})

\* C1: when start() replaces a Running session, then once the timer and the
\* callbacks of the replaced session have fired (and nothing else was asked
\* of the host), the new session is the one session, its child is alive and
\* unsignalled, and the temp resources of the replaced session are off disk.
C1_RestartLeavesNewSessionAlive ==
  LET p == restart[1]
      q == restart[2]
  IN  ( /\ q # 0
        /\ pc[p] = "closed" /\ p \notin killTimers
        /\ q \notin killed /\ undeleted = {}
        /\ pc[q] = "alive" \/ q \in forced )
      => /\ denoProcess = q
         /\ pc[q] = "alive" /\ q \notin forced
         /\ (serverFile[p] # "-" /\ serverFile[p] # serverFile[q])
              => disk \cap {tempDir(serverFile[p]), tempServerPath(serverFile[p])} = {}

\* C2: every child that was spawned and is not the one the host holds has had
\* kill() called on it by stopLivePreview: the host holds one handle, and a
\* child is signalled before the next one is spawned.
C2_EarlierChildrenSignalled ==
  \A p \in Ids : (pc[p] \in Spawned /\ p # denoProcess) => p \in killed

\* Two start() calls overlapped: call 1 began first and spawned last, and the
\* child of call 2, alive, was signalled when call 1 spawned.
C2_Witness ==
  /\ MaxStarts >= 2
  /\ denoProcess = 1 /\ pc[1] = "alive"
  /\ pc[2] = "alive" /\ 2 \in killed

\* C3: a child of a Running session that crashed on its own (nonzero exit
\* code, no stop() since) leaves, once its close callback ran, an Idle host:
\* no handle, no watcher, no health timer, no tracked temp resource on disk.
C3_CrashStopsSession ==
  \A p \in Ids :
    ( /\ pc[p] = "closed" /\ code[p] = "crash"
      /\ p \notin killed \cup forced
      /\ previewUrl = p )
    => /\ denoProcess = 0
       /\ ~fileWatcher
       /\ healthCheckInterval = -1
       /\ tempResources \cap disk = {}

\* C4: when the 500 ms timer armed by the stop of child p fires and p has not
\* exited, p is sent the forceful termination.
C4_ForceKillAfterGrace ==
  [][\A p \in Ids :
       (p \in killTimers /\ p \notin killTimers' /\ pc[p] = "alive") => p \in forced']_vars

\* The state stopLivePreview leaves, but for the connection status in the
\* diagnostics store: no handle, no watcher, no active-preview file, no
\* preview URL, status `unknown` in the provider, no tracked temp resource
\* on disk and nothing on disk but what the filesystem refused to delete.
IdleAfterStop ==
  /\ denoProcess = 0
  /\ ~fileWatcher
  /\ activePreviewFiles = {}
  /\ previewUrl = 0
  /\ connectionStatus = "unknown"
  /\ tempResources \cap disk = {}
  /\ disk \subseteq undeleted

\* C5 as stated: after stop() the host is Idle and the connection status is
\* `unknown` in the provider and in the diagnostics store.
C5_StopLeavesStatusUnknown ==
  [][(\E refuse \in Refusals : StopCommand(refuse))
       => (IdleAfterStop /\ websocketStatus = "unknown")']_vars

\* C5 as amended: after stop() the host is Idle, the connection status is
\* `unknown` in the provider and `disconnected` in the diagnostics store.
C5_StopLeavesIdle ==
  [][(\E refuse \in Refusals : StopCommand(refuse))
       => (IdleAfterStop /\ websocketStatus = "disconnected")']_vars

\* A session that had reached Running (its startup line was read) has been
\* stopped, its child signalled and still alive.
C5_Witness ==
  /\ denoProcess = 0 /\ previewUrl = 0
  /\ connectionStatus = "unknown" /\ websocketStatus = "disconnected"
  /\ \E p \in Ids : p \in killed /\ pc[p] = "alive" /\ out[p] = "none"

\* C6: with the port bound by another process, no start is announced as
\* started and no preview URL is set for its session.
C6_BusyPortNotSilent ==
  portTaken => \A p \in Ids : pc[p] \in Spawned => (outcome[p] # "started" /\ previewUrl # p)

\* C7: while the host holds the child of a session, a preview URL and a file
\* watcher exist only if that child's own 'Server running at:' line was read.
C7_RunningOnlyAfterOwnLine ==
  denoProcess # 0 => /\ previewUrl \in {0, denoProcess}
                     /\ fileWatcher => previewUrl = denoProcess

\* C8: once the 'error' and 'close' callbacks of a child that failed to spawn
\* have run, the host does not hold its handle and the start was not left
\* announced as started.
C8_SpawnErrorSurfaced ==
  \A p \in Ids : (pc[p] = "closed" /\ code[p] = "spawnerr")
                   => (denoProcess # p /\ outcome[p] # "started")

\* C9: the number of spawns never exceeds the number of start() calls; each
\* call spawns at most once, whatever its child does afterwards.
C9_SpawnsOnlyFromStart ==
  /\ spawnCount <= NumStarts
  /\ spawnCount = NumSpawned

\* One child crashed and one failed to spawn, both callbacks done, and the
\* two spawns of the two start() calls are all there were.
C9_Witness ==
  /\ spawnCount = 2
  /\ \E p, q \in Ids : /\ pc[p] = "closed" /\ code[p] = "crash"
                       /\ pc[q] = "closed" /\ code[q] = "spawnerr"

\* C10: a fetch begun for session s that resolves when s is no longer the
\* host's session leaves the connection status as it is.
C10_StaleFetchIgnored ==
  [][\A s \in Ids :
       (s \in fetches /\ s \notin fetches' /\ denoProcess # s)
         => connectionStatus' = connectionStatus]_vars

\* C11: every call of cleanup leaves the tracking map empty, whatever the
\* filesystem holds; here for the cleanup of a stop().
C11_CleanupEmptiesTracking ==
  [][(\E refuse \in Refusals : StopCommand(refuse)) => tempResources' = {}]_vars

\* C12: a cleanup that follows a cleanup, with no createTempResource in
\* between, makes no deletion call and leaves the tracking map and the disk
\* as it found them.
C12_SecondCleanupChangesNothing ==
  [][(inRow >= 1 /\ \E refuse \in Refusals : CleanupTempResources(refuse))
       => /\ deletions' = <<>>
          /\ disk' = disk
          /\ tempResources' = tempResources
          /\ tracked' = tracked]_vars

\* A second cleanup in a row has run, the first having been refused a
\* deletion by the filesystem.
C12_Witness ==
  /\ inRow >= 2
  /\ undeleted # {}
  /\ deletions = <<>>

\* C13: among the deletion calls of one cleanup, no directory comes before
\* a file.
C13_FilesBeforeDirectories ==
  \A i, j \in DOMAIN deletions :
    (deletions[i][1] = "directory" /\ deletions[j][1] = "file") => j < i

\* A cleanup has deleted the directories and the files of both roots.
C13_Witness ==
  /\ Len(deletions) = 4
  /\ \A r \in Roots : {tempDir(r), tempServerPath(r)} \subseteq Range(deletions)

\* C14: a modify or create event of the server's watcher sends `reload`
\* once to every socket that is open and to no other socket.
C14_ReloadReachesOpenSockets ==
  [][(\E kind \in {"modify", "create"} : WatcherEvent(kind))
       => \A s \in Sockets : sent'[s] = IF readyState[s] = "open" THEN 1 ELSE 0]_vars

\* A broadcast has reached three open sockets and not a fourth socket of
\* the set, closed with its close event still to be dispatched.
C14_Witness ==
  /\ Cardinality({s \in Sockets : sent[s] = 1 /\ readyState[s] = "open"}) = 3
  /\ \E s \in clients : readyState[s] = "closed" /\ sent[s] = 0

\* C15: the set `clients` holds the sockets whose open event has been
\* handled and whose close and error events have not.
C15_ClientsAreOpenedSockets ==
  clients = {s \in Sockets : "open" \in seen[s] /\ seen[s] \cap {"error", "close"} = {}}

\* One socket is in the set; another was in it and has left it on its error
\* event, its close event still to come; a third left it on its close event.
C15_Witness ==
  \E s, t, u \in Sockets :
    /\ s \in clients
    /\ seen[t] = {"open", "error"} /\ t \notin clients
    /\ seen[u] = {"open", "close"} /\ u \notin clients

\* C18: a server that exited on the signal the host's stop sends has closed
\* its watcher and every open client connection before.
C18_HostSignalShutsDownCleanly ==
  (server = "exited" /\ exitSignal = hostSignal)
    => /\ watcher # "watching"
       /\ \A s \in Sockets : readyState[s] # "open"

\* C16: the delay reconnect() computes never exceeds the ceiling of 10000 ms,
\* and the first reconnect() after a connection was opened waits the base
\* delay of 1000 ms.
C16_BackoffCappedAndReset ==
  /\ delay <= MAX_DELAY
  /\ afterOpen = "first" => delay = BASE_DELAY

\* C17: the change events of one burst, each arriving before the debounce
\* window after the one before it has passed, make the file watcher trigger
\* one refresh and no more, and none before the window has passed with no
\* further event.
C17_BurstRefreshesOnceAfterWindow ==
  /\ burstRefreshes <= 1
  /\ (changes >= 1 /\ ~windowPassed) => burstRefreshes = 0

\* C19: every HTML response body the generated server returns holds the reload
\* script tag exactly once, whatever the source file holds and however often
\* the page is requested, and the injection leaves such a body as it is.
C19_OneScriptTagInHtmlResponse ==
  htmlResponse.kind = "html" =>
    /\ scriptTags(htmlResponse.body) = 1
    /\ injectReloadScript(htmlResponse.body) = htmlResponse.body

C21_FetchRateLimited ==
  [][fetches' \ fetches # {} => (previewUrl # 0 /\ sinceCheck >= HEALTH_INTERVAL)]_vars

\* A preview URL is set and the last fetch was begun, and has resolved, less
\* than 10 s ago: a call of checkServerHealth now is one the limit turns away.
C21_Witness ==
  /\ previewUrl # 0
  /\ sinceCheck = 0
  /\ fetches = {}
  /\ ENABLED CheckServerHealthCalled

\* C22: a completed health poll leaves the connection status at `connected`
\* when the body reports active WebSocket connections, at `disconnected` when
\* it reports none active but some before, as it was when it reports none at
\* all, and at `error` when the response is not OK, the fetch failed or the
\* body is not JSON; the poll completes in each case.
C22_StatusFollowsPoll ==
  [][\A s \in Ids \cup {0}, r \in Responses :
       FetchBrings(s, r) =>
         connectionStatus' =
           IF r.http = "ok" /\ r.json
             THEN IF r.active > 0 THEN "connected"
                  ELSE IF r.total > 0 THEN "disconnected"
                  ELSE connectionStatus
             ELSE "error"]_vars

\* A poll of the live current session has completed and set `error`, a status
\* nothing but a poll sets.
C22_Witness ==
  /\ fetches = {}
  /\ sinceCheck = 0
  /\ connectionStatus = "error"
  /\ denoProcess # 0 /\ pc[denoProcess] = "alive"

\* No session: no handle, no watcher, no active-preview file, no preview URL,
\* no health timer, the server reported as not running.
NoSession ==
  /\ denoProcess = 0
  /\ ~fileWatcher
  /\ activePreviewFiles = {}
  /\ previewUrl = 0
  /\ healthCheckInterval = -1
  /\ ~serverRunning

nearestMarker(l) ==
  IF l.markers = {} THEN 0
  ELSE CHOOSE k \in l.markers : \A j \in l.markers : k <= j

\* C24: with the nearest marker file in a directory at most 10 dirname steps
\* above the edited file (the file's own directory being the first step), an
\* undisturbed detectProjectRoot returns that directory; with the nearest
\* marker 11 steps up or more, or none, it returns the file's own directory.
C24_NearestMarkerWithinDepth ==
  (detected.dir # 0 /\ ~detected.failed) =>
    detected.dir = IF nearestMarker(layout) \in 1..maxSearchDepth
                     THEN nearestMarker(layout) ELSE 1

\* C25: every detectProjectRoot call returns a directory of the chain; two
\* calls on the same filesystem, disturbed alike, return the same directory
\* whatever projectRoot held at each; a call whose try block throws returns
\* the file's own directory.
C25_DetectionPureAndTotal ==
  /\ detected # NoneDetected => detected.dir \in 1..layout.n
  /\ (detectedBefore.dir # 0 /\ detected.failed = detectedBefore.failed)
       => detected.dir = detectedBefore.dir
  /\ detected.failed => detected.dir = 1

\* Two undisturbed calls on one filesystem found the same root above the
\* file's directory, the first with no root recorded or another one.
C25_Witness ==
  /\ detectedBefore.dir > 1
  /\ detected.dir = detectedBefore.dir
  /\ ~detected.failed /\ ~detectedBefore.failed
  /\ detected.root # detectedBefore.root

\* C26: every child is spawned with network access to the chosen port only,
\* read access to the project root of its file only, environment reads of the
\* three listed names only, and an environment that holds no other variable.
C26_SpawnSurfaceMinimal ==
  \A i \in Ids :
    launch[i] # NoLaunch =>
      /\ launch[i].args.allowNet = {<<"localhost", port>>}
      /\ launch[i].args.allowRead = {detectProjectRoot(file[i])}
      /\ launch[i].args.allowEnv = ALLOW_ENV
      /\ DOMAIN launch[i].env \subseteq ALLOW_ENV

\* C27: a request to /_lr_ws without the upgrade header is answered with 501,
\* its step leaves the broadcast set as it is, and the socket of a request so
\* answered is never in the set.
C27_NonUpgradeRejected ==
  /\ [][\A ok \in BOOLEAN :
          LrWsRequest(FALSE, ok) =>
            /\ lrWsStatus(FALSE, ok) = 501
            /\ readyState'[NextSocket] = "rejected"
            /\ clients' = clients]_vars
  /\ [](\A s \in Sockets : readyState[s] = "rejected" => s \notin clients /\ seen[s] = {})

\* A request was answered with 501 while another socket is in the set.
C27_Witness ==
  \E s, t \in Sockets :
    /\ readyState[s] = "rejected" /\ s \notin clients
    /\ readyState[t] = "open" /\ t \in clients /\ s > t

\* C28: the generated server asks for the port DENO_PORT names when that is a
\* run of digits naming a port from 1 to 65535, and for 8000 when DENO_PORT is
\* unset, empty, not a number, or a number that is no port (negative or above
\* 65535).
C28_PortFromEnvOrDefault ==
  servePort.called =>
    LET n == Number(denoPort.text)
    IN  /\ (denoPort.set /\ denoPort.text # <<>> /\ ~n.nan /\ n.value \in 1..65535)
             => servePort.port = n.value
        /\ (~denoPort.set \/ denoPort.text = <<>> \/ n.nan \/ n.value < 0 \/ n.value > 65535)
             => servePort.port = FALLBACK_PORT

\* C29: the 500 ms timer armed by the stop of child p signals no child but p.
\* The host's handle is cleared by that stop, so any child it holds when the
\* timer fires was spawned after the stop: the timer never sends the forceful
\* termination to such a later child.
C29_TimerSparesLaterChild ==
  [][\A p \in Ids :
       (p \in killTimers /\ p \notin killTimers') => forced' \subseteq forced \cup {p}]_vars

\* C30: the close callback of a child the host no longer holds leaves the
\* generated server file of the session the host holds, whose child is alive,
\* on disk.
C30_CloseSparesLaterServerFile ==
  [][\A p \in Ids :
       ( /\ pc[p] = "exited" /\ pc'[p] = "closed"
         /\ denoProcess # 0 /\ denoProcess # p /\ pc[denoProcess] = "alive"
         /\ serverFile[denoProcess] # "-"
         /\ tempServerPath(serverFile[denoProcess]) \in disk )
       => tempServerPath(serverFile[denoProcess]) \in disk']_vars

\* C31: while the host holds no child and no start() is under way (before the
\* first start, and from a stop() to the next start()), it has no file
\* watcher, no preview URL and no health-check timer, whatever stdout of a
\* terminated child is still delivered.
C31_StoppedHostStaysClear ==
  (denoProcess = 0 /\ NoCallPending)
    => (~fileWatcher /\ previewUrl = 0 /\ healthCheckInterval = -1)

\* C32: the counter activeWsConnections is never negative and, when no
\* upgraded socket is still in its handshake, equals the number of sockets in
\* `clients`, over every order of requests to /_lr_ws (with and without the
\* upgrade header, with upgrades that throw) and of open, error and close
\* events.
C32_ActiveWsCountsClients ==
  /\ diagnostics.activeWsConnections >= 0
  /\ (\A s \in Sockets : readyState[s] # "connecting")
       => diagnostics.activeWsConnections = Cardinality(clients)

\* The first half of C32 by itself: the counter is never negative.
C32_ActiveWsNotNegative == diagnostics.activeWsConnections >= 0

\* C33: the reload client has at most one WebSocket connecting or open and at
\* most one reconnect timer pending.
C33_OneSocketOneTimer ==
  /\ reconnectTimers <= 1
  /\ Cardinality({k \in WebSockets : wsState[k] \in {"connecting", "open"}}) <= 1

\* The second half of C33 by itself: never two sockets connecting or open.
C33_OneSocket ==
  Cardinality({k \in WebSockets : wsState[k] \in {"connecting", "open"}}) <= 1

\* C34: once the host has read all the server wrote, a connection status
\* `disconnected` means no reload client has its socket open on the server.
C34_DisconnectedMeansNoPeer ==
  (pipe = <<>> /\ connectionStatus = "disconnected") => peers = {}

\* The WebSocket status lines of a chunk, in order.
wsLines(chunk) == SelectSeq(chunk, LAMBDA l : l # "other")

\* The status one WebSocket status line indicates.
lineStatus(l) == IF l = "established" THEN "connected" ELSE "disconnected"

\* C36: after a chunk that holds WebSocket status lines, the connection status
\* is the one its last such line indicates.
C36_LastLineWins ==
  [][\A n \in 1..MaxPipe :
       (StdoutChunk(n) /\ wsLines(SubSeq(pipe, 1, n)) # <<>>)
         => LET ws == wsLines(SubSeq(pipe, 1, n))
            IN  connectionStatus' = lineStatus(ws[Len(ws)])]_vars

\* C35: the turns a start() runs before it returns for want of an editor, of
\* a previewable document or of Deno (the rejection; the turn after the save,
\* which ends at the Deno check; the return when the check fails) leave a
\* Running session as they find it: its recorded project root, handle,
\* watcher, active-preview files, tracked temp resources and preview URL.
C35_AbortedStartKeepsSession ==
  [][ ( /\ Running
        /\ StartRejected \/ \E i \in Ids : StartAfterSave(i) \/ StartDenoMissing(i) )
      => UNCHANGED <<projectRoot, denoProcess, fileWatcher, activePreviewFiles,
                     tempResources, previewUrl>> ]_vars

\* C37: at most one health-check timer is armed, and one is armed only while
\* the preview URL is not empty, over every order of resolveWebviewView,
\* setPreviewUrl, clearPreview and dispose.
C37_OneTimerOnlyWithUrl ==
  /\ Cardinality(intervals) <= 1
  /\ intervals # {} => previewUrl # 0

\* A timer was armed again over a held one, after a view was resolved, and one
\* timer is armed for the URL set.
C37_Witness ==
  /\ armCount >= 3
  /\ view
  /\ previewUrl # 0
  /\ intervals = {intervalId} /\ intervalId = armCount

\* C38: the counter activeConnections equals the number of request handlers
\* in progress (so it is never negative, and is back at its value once a
\* handler has returned, with a response, an error response or after a throw),
\* and connections equals requests.
C38_ActiveConnectionsCountHandlers ==
  /\ diagnostics.activeConnections = htmlPending
  /\ diagnostics.activeConnections >= 0
  /\ diagnostics.connections = diagnostics.requests

\* Two handlers were entered, one has answered 500 after serveDir threw, the
\* other is still awaiting serveDir.
C38_Witness ==
  /\ diagnostics.requests = 2
  /\ htmlPending = 1
  /\ htmlResponse.kind = "error"
  /\ diagnostics.errors >= 1

====
